---- MODULE Spec2Model ----
(***************************************************************************)
(* Perception-to-action pipeline of the Android GUI automation agent.      *)
(*                                                                         *)
(* Texts (planner responses) are sequences of lexical tokens.  The five    *)
(* punctuation characters  {  }  "  :  ,  are tokens of their own; every   *)
(* other token is a maximal run of characters holding none of them (a      *)
(* word or a numeral).  White space between tokens is not represented.     *)
(* JSON values carry their Python type as a tag: [k |-> kind, v |-> value] *)
(* so that a comparison of values of different types is false, as it is    *)
(* in Python, instead of an error.                                         *)
(***************************************************************************)
EXTENDS Integers, Sequences, FiniteSets, TLC

VARIABLES
    \* response parser (inference.py)
    response,       \* the planner's raw text, a sequence of tokens
    elements,       \* screen_state['ui_hierarchy']['elements']
    parsed,         \* what _parse_action_from_response returned
    ppc,            \* "ready" before the call, "parsed" after it
    \* screen capture (perception.py)
    capIn,          \* what the two adb captures do on this call
    capOut,         \* what capture_screen_state returned or raised
    \* control loop (agent.py)
    pc,             \* where run_task is
    config,         \* config['agent']: max_steps, screenshot_on_error
    current_step,   \* self.current_step
    conversation_history,
    screen_data,    \* what capture_screen_state gave on this step
    response_text,  \* the text the model decoded on this step
    action_response,\* what get_next_action returned on this step
    returned,       \* run_task's result: "True", "False", "raised"; "none" before
    exit,           \* the statement run_task left by
    step_calls,     \* planner and executor calls made on this step
    last_exec,      \* the executor call of this step: method and arguments
    success,        \* what _execute_action returned on this step
    task_description,
    calls,          \* the run_task calls made on this agent
    \* hierarchy parser (perception.py)
    root,           \* the children of the dump's root element
    ui_elements,    \* what _parse_ui_elements returned
    hpc,            \* "ready" before the call, "parsed" after it
    \* key events (action.py, action_executor.py)
    key_name,       \* the key name given to press_key
    sent            \* what each executor's press_key sent to the device

pvars == <<response, elements, parsed, ppc>>

cvars == <<capIn, capOut>>

lvars == <<pc, config, current_step, conversation_history, screen_data,
           response_text, action_response, returned, exit, step_calls, last_exec,
           success, task_description, calls>>

hvars == <<root, ui_elements, hpc>>

kvars == <<key_name, sent>>

vars == <<pvars, cvars, lvars, hvars, kvars>>

(***************************************************************************)
(* Tokens and JSON values                                                  *)
(***************************************************************************)
LB == "{"
RB == "}"
QT == "\""
COLON == ":"
COMMA == ","

\* int(): the numerals that occur in the texts of this model
NumeralValue ==
    ("-3" :> -3) @@ ("-1" :> -1) @@ ("0" :> 0) @@ ("1" :> 1) @@ ("2" :> 2)
    @@ ("3" :> 3) @@ ("4" :> 4) @@ ("5" :> 5) @@ ("7" :> 7) @@ ("9" :> 9)
    @@ ("99" :> 99) @@ ("5000" :> 5000) @@ ("100" :> 100) @@ ("200" :> 200)
    @@ ("300" :> 300) @@ ("400" :> 400)

JStr(s) == [k |-> "str", v |-> s]
JInt(n) == [k |-> "int", v |-> n]
JBool(b) == [k |-> "bool", v |-> b]
JNull == [k |-> "null", v |-> 0]
JObj(d) == [k |-> "obj", v |-> d]

\* a one-word string
W(w) == JStr(<<w>>)

EmptyDict == <<>>

\* dict.get(key, default) for a one-word key
Get(d, key, default) == IF <<key>> \in DOMAIN d THEN d[<<key>>] ELSE default

Has(d, key) == <<key>> \in DOMAIN d

\* Python truthiness of a JSON value
Truthy(val) ==
    CASE val.k = "null" -> FALSE
      [] val.k = "bool" -> val.v
      [] val.k = "int" -> val.v # 0
      [] val.k = "str" -> val.v # <<>>
      [] val.k = "obj" -> DOMAIN val.v # {}
      [] OTHER -> TRUE

(***************************************************************************)
(* json.loads on a token sequence (objects, strings, integers, true,       *)
(* false, null; the texts of the model hold no arrays, floats or escapes)  *)
(***************************************************************************)
JFail == [ok |-> FALSE, val |-> JNull, next |-> 0]

JOk(val, next) == [ok |-> TRUE, val |-> val, next |-> next]

\* the position of the first token equal to tok at or after i, 0 if none
IndexFrom(t, tok, i) ==
    LET hits == {j \in i..Len(t) : t[j] = tok}
    IN IF hits = {} THEN 0 ELSE CHOOSE j \in hits : \A h \in hits : j <= h

\* a string literal starting at the quote t[i]
ScanString(t, i) ==
    LET j == IndexFrom(t, QT, i + 1)
    IN IF j = 0 THEN JFail ELSE JOk(JStr(SubSeq(t, i + 1, j - 1)), j + 1)

RECURSIVE JsonValue(_, _)
RECURSIVE JsonMembers(_, _, _)

\* the members of an object from position i on, acc the pairs read so far
JsonMembers(t, i, acc) ==
    IF i > Len(t) \/ t[i] # QT THEN JFail
    ELSE LET key == ScanString(t, i)
         IN IF ~key.ok \/ key.next > Len(t) \/ t[key.next] # COLON THEN JFail
            ELSE LET val == JsonValue(t, key.next + 1)
                 IN IF ~val.ok \/ val.next > Len(t) THEN JFail
                    ELSE LET acc2 == (key.val.v :> val.val) @@ acc
                         IN IF t[val.next] = COMMA
                               THEN JsonMembers(t, val.next + 1, acc2)
                            ELSE IF t[val.next] = RB
                               THEN JOk(JObj(acc2), val.next + 1)
                            ELSE JFail

JsonValue(t, i) ==
    IF i > Len(t) THEN JFail
    ELSE IF t[i] = QT THEN ScanString(t, i)
    ELSE IF t[i] = LB
        THEN IF i + 1 <= Len(t) /\ t[i + 1] = RB
                THEN JOk(JObj(EmptyDict), i + 2)
             ELSE JsonMembers(t, i + 1, EmptyDict)
    ELSE IF t[i] \in DOMAIN NumeralValue THEN JOk(JInt(NumeralValue[t[i]]), i + 1)
    ELSE IF t[i] = "true" THEN JOk(JBool(TRUE), i + 1)
    ELSE IF t[i] = "false" THEN JOk(JBool(FALSE), i + 1)
    ELSE IF t[i] = "null" THEN JOk(JNull, i + 1)
    ELSE JFail

\* json.loads: one value and nothing after it, else JSONDecodeError (ok = FALSE)
JsonLoads(t) ==
    LET r == JsonValue(t, 1)
    IN IF r.ok /\ r.next = Len(t) + 1 THEN r ELSE JFail

(***************************************************************************)
(* GemmaInference._parse_action_from_response (inference.py)               *)
(***************************************************************************)
NoMatch == <<0, 0>>

\* re.search(r'\{[^{}]*\}', response): the leftmost "{" whose next brace is a
\* "}", as <<first, last>> positions; NoMatch when there is none
SearchFlatObject(t) ==
    LET opens == {i \in 1..Len(t) :
                    /\ t[i] = LB
                    /\ \E j \in (i + 1)..Len(t) :
                          /\ t[j] = RB
                          /\ \A m \in (i + 1)..(j - 1) : t[m] \notin {LB, RB}}
    IN IF opens = {} THEN NoMatch
       ELSE LET i == CHOOSE a \in opens : \A b \in opens : a <= b
            IN <<i, IndexFrom(t, RB, i + 1)>>

IsWord(val, w) == val.k = "str" /\ val.v = <<w>>

\* the value of a Python int or bool used as a number
IntOf(val) == IF val.k = "bool" THEN (IF val.v THEN 1 ELSE 0) ELSE val.v

\* the bare fallback of the no-match and except branches
WaitAction == [type |-> "wait", duration |-> 1]

UnknownWaitAction ==
    [type |-> "wait", duration |-> 1,
     description |-> JStr(<<"Unknown", "action", COMMA, "waiting">>)]

\* the tap of the "Fallback to coordinates" branch
CoordinateTap(ad) ==
    [type |-> "tap",
     x |-> Get(ad, "x", JInt(100)),
     y |-> Get(ad, "y", JInt(100)),
     description |-> Get(ad, "reasoning", JStr(<<>>))]

\* the tap at the centre of elements[n] (Python index n, from 0)
ElementTap(ad, elems, n) ==
    [type |-> "tap",
     x |-> JInt(elems[n + 1].center.x),
     y |-> JInt(elems[n + 1].center.y),
     description |-> Get(ad, "reasoning", JStr(<<>>))]

\* the 'tap' branch; comparing a str or a dict element_id with 0 is a
\* TypeError, which the blanket except turns into the bare wait
TapAction(ad, elems) ==
    LET eid == Get(ad, "element_id", JNull)
    IN IF eid.k = "null" THEN CoordinateTap(ad)
       ELSE IF eid.k \in {"int", "bool"}
          THEN IF 0 <= IntOf(eid) /\ IntOf(eid) < Len(elems)
                  THEN ElementTap(ad, elems, IntOf(eid))
               ELSE CoordinateTap(ad)
       ELSE WaitAction

\* the if/elif chain over action_type, ad the dict json.loads returned
BuildAction(ad, elems) ==
    LET at == Get(ad, "action_type", W("wait"))
    IN IF IsWord(at, "tap") THEN TapAction(ad, elems)
       ELSE IF IsWord(at, "text_input")
          THEN [type |-> "text_input",
                text |-> Get(ad, "text", JStr(<<>>)),
                description |-> Get(ad, "reasoning", JStr(<<>>))]
       ELSE IF IsWord(at, "swipe")
          THEN [type |-> "swipe",
                x1 |-> Get(ad, "x1", JInt(500)),
                y1 |-> Get(ad, "y1", JInt(1000)),
                x2 |-> Get(ad, "x2", JInt(500)),
                y2 |-> Get(ad, "y2", JInt(300)),
                description |-> Get(ad, "reasoning", JStr(<<>>))]
       ELSE IF IsWord(at, "key_event") \/ IsWord(at, "press_key")
          THEN [type |-> "key_event",
                key |-> Get(ad, "key", W("BACK")),
                description |-> Get(ad, "reasoning", JStr(<<>>))]
       ELSE IF IsWord(at, "task_complete")
          THEN [type |-> "task_complete",
                description |-> Get(ad, "reasoning", JStr(<<"Task", "completed">>))]
       ELSE UnknownWaitAction

\* action_data: what json.loads gives for the text the regex matched
\* (ok = FALSE: no match, or JSONDecodeError)
ActionData(resp) ==
    LET m == SearchFlatObject(resp)
    IN IF m = NoMatch THEN JFail ELSE JsonLoads(SubSeq(resp, m[1], m[2]))

ParseActionFromResponse(resp, elems) ==
    LET ad == ActionData(resp)
    IN IF ~ad.ok THEN WaitAction ELSE BuildAction(ad.val.v, elems)

(***************************************************************************)
(* Planner texts and snapshots the response parser is run on               *)
(***************************************************************************)
MaxElements == 3

\* element i of a snapshot (from 1); the first has centre (50,60)
ElementAt(i) == [center |-> [x |-> 50 * i, y |-> 60 * i]]

Snapshot(n) == [i \in 1..n |-> ElementAt(i)]

Quoted(s) == <<QT>> \o s \o <<QT>>

Member(key, valtoks) == <<QT, key, QT, COLON>> \o valtoks

ActionTypeOpts ==
    {<<>>} \cup
    {Member("action_type", Quoted(<<a>>)) :
        a \in {"tap", "swipe", "text_input", "key_event", "press_key",
               "task_complete", "wait", "fly"}}

ElementIdOpts ==
    {<<>>} \cup
    {Member("element_id", v) :
        v \in {<<"-1">>, <<"0">>, <<"2">>, <<"99">>, <<"true">>, <<"null">>,
               Quoted(<<"0">>)}}

CoordOpts ==
    {<<>>,
     Member("x", <<"7">>) \o <<COMMA>> \o Member("y", <<"9">>),
     Member("x", <<"5000">>) \o <<COMMA>> \o Member("y", <<"-3">>),
     Member("x1", <<"5000">>) \o <<COMMA>> \o Member("y2", <<"-1">>),
     Member("text", Quoted(<<"hi">>)),
     Member("key", Quoted(<<"HOME">>))}

ReasoningOpts ==
    {<<>>,
     Member("reasoning", Quoted(<<"ok">>)),
     Member("reasoning", Quoted(<<"press", LB, "OK", RB>>))}

ProseOpts == {<<>>, <<"I", "will", "tap", "it">>}

\* the members that are present, separated by commas
RECURSIVE JoinMembers(_)
JoinMembers(ms) ==
    IF ms = <<>> THEN <<>>
    ELSE IF Head(ms) = <<>> THEN JoinMembers(Tail(ms))
    ELSE LET rest == JoinMembers(Tail(ms))
         IN IF rest = <<>> THEN Head(ms) ELSE Head(ms) \o <<COMMA>> \o rest

\* prose, then an action object; closed = FALSE cuts the text before the
\* closing brace (a truncated generation)
ResponseText(prose, ms, closed) ==
    prose \o <<LB>> \o JoinMembers(ms) \o (IF closed THEN <<RB>> ELSE <<>>)

ParserTexts ==
    {ResponseText(p, <<a, e, c, r>>, closed) :
        p \in ProseOpts, a \in ActionTypeOpts, e \in ElementIdOpts,
        c \in CoordOpts, r \in ReasoningOpts, closed \in BOOLEAN}
    \cup {<<>>, <<"no", "idea">>}

NotParsed == [type |-> "none"]

\* no capture made yet on this step
NoScreen == [kind |-> "unset"]

\* no text decoded yet on this step
NoResponse == <<"<none>">>

NoCalls == [planner |-> 0, executor |-> 0]

NoExec == [kind |-> "none"]

\* neither press_key has been called
NothingSent == [shell |-> [kind |-> "none"], client |-> [kind |-> "none"]]

\* the response parser before its call
ParserIdle ==
    /\ response = <<>>
    /\ elements = <<>>
    /\ parsed = NotParsed
    /\ ppc = "off"

\* the capture before its call
CaptureIdle ==
    /\ capIn = [kind |-> "none"]
    /\ capOut = [kind |-> "none"]

\* the agent before __init__
LoopIdle ==
    /\ pc = "off"
    /\ config = [max_steps |-> 0, screenshot_on_error |-> FALSE]
    /\ current_step = 0
    /\ conversation_history = <<>>
    /\ screen_data = NoScreen
    /\ response_text = NoResponse
    /\ action_response = EmptyDict
    /\ returned = "none"
    /\ exit = "none"
    /\ step_calls = NoCalls
    /\ last_exec = NoExec
    /\ success = "none"
    /\ task_description = "none"
    /\ calls = 0

\* the hierarchy parser before its call
HierarchyIdle ==
    /\ root = <<>>
    /\ ui_elements = <<>>
    /\ hpc = "off"

\* the executors before a press_key
KeysIdle ==
    /\ key_name = [letters |-> "none", case |-> "lower"]
    /\ sent = NothingSent

ParseInit ==
    /\ CaptureIdle
    /\ LoopIdle
    /\ HierarchyIdle
    /\ KeysIdle
    /\ response \in ParserTexts
    /\ elements \in {Snapshot(n) : n \in 0..MaxElements}
    /\ parsed = NotParsed
    /\ ppc = "ready"

\* decide_next_action's call of _parse_action_from_response
ParseResponse ==
    /\ ppc = "ready"
    /\ parsed' = ParseActionFromResponse(response, elements)
    /\ ppc' = "parsed"
    /\ UNCHANGED <<response, elements, cvars, lvars, hvars, kvars>>

ParseNext == ParseResponse

ParseSpec == ParseInit /\ [][ParseNext]_vars

(***************************************************************************)
(* The action object a response declares (spec 4.3): the first             *)
(* syntactically balanced top-level object, braces inside string literals  *)
(* not counted                                                             *)
(***************************************************************************)
RECURSIVE BalancedEnd(_, _, _, _)
BalancedEnd(t, i, depth, inString) ==
    IF i > Len(t) THEN 0
    ELSE IF inString THEN BalancedEnd(t, i + 1, depth, t[i] # QT)
    ELSE IF t[i] = QT THEN BalancedEnd(t, i + 1, depth, TRUE)
    ELSE IF t[i] = LB THEN BalancedEnd(t, i + 1, depth + 1, FALSE)
    ELSE IF t[i] = RB
        THEN IF depth = 1 THEN i ELSE BalancedEnd(t, i + 1, depth - 1, FALSE)
    ELSE BalancedEnd(t, i + 1, depth, FALSE)

BalancedObject(t) ==
    LET i == IndexFrom(t, LB, 1)
        j == IF i = 0 THEN 0 ELSE BalancedEnd(t, i + 1, 1, FALSE)
    IN IF j = 0 THEN NoMatch ELSE <<i, j>>

DeclaredAction(resp) ==
    LET m == BalancedObject(resp)
    IN IF m = NoMatch THEN JFail ELSE JsonLoads(SubSeq(resp, m[1], m[2]))

\* some string member of the dict holds a brace
BraceInString(d) ==
    \E key \in DOMAIN d :
        /\ d[key].k = "str"
        /\ \E i \in 1..Len(d[key].v) : d[key].v[i] \in {LB, RB}

\* the dict is a tap whose element_id is the integer index of an element
TapsElement(d, elems) ==
    /\ IsWord(Get(d, "action_type", W("wait")), "tap")
    /\ Get(d, "element_id", JNull).k = "int"
    /\ 0 <= Get(d, "element_id", JNull).v
    /\ Get(d, "element_id", JNull).v < Len(elems)

\* the dict is a tap with an element_id that is no index of an element, and
\* with no x and no y
TapsNoElement(d, elems) ==
    /\ IsWord(Get(d, "action_type", W("wait")), "tap")
    /\ Get(d, "element_id", JNull).k = "int"
    /\ \/ Get(d, "element_id", JNull).v < 0
       \/ Get(d, "element_id", JNull).v >= Len(elems)
    /\ ~Has(d, "x")
    /\ ~Has(d, "y")

KnownKinds ==
    {"tap", "text_input", "swipe", "key_event", "press_key", "task_complete", "wait"}

UnknownKind(d) ==
    /\ Has(d, "action_type")
    /\ \A kind \in KnownKinds : ~IsWord(d[<<"action_type">>], kind)

IsDefaultWait(a) == a.type = "wait" /\ a.duration = 1

\* C1: a response whose action object is a tap with element_id i,
\* 0 <= i < len(elements), is parsed to a tap at elements[i].center.
C1_ElementIdGivesCenter ==
    (/\ ppc = "parsed"
     /\ DeclaredAction(response).ok
     /\ TapsElement(DeclaredAction(response).val.v, elements))
    => LET i == DeclaredAction(response).val.v[<<"element_id">>].v
       IN /\ parsed.type = "tap"
          /\ parsed.x = JInt(elements[i + 1].center.x)
          /\ parsed.y = JInt(elements[i + 1].center.y)

\* C2: a tap whose element_id is out of range and that carries no x and no y
\* is parsed to a wait action, not to a tap.
C2_OutOfRangeGivesWait ==
    (/\ ppc = "parsed"
     /\ ActionData(response).ok
     /\ TapsNoElement(ActionData(response).val.v, elements))
    => parsed.type = "wait"

\* C3: a well-formed action object with a brace inside one of its string
\* members is parsed to the action it declares.
C3_BracesInStringsParse ==
    (/\ ppc = "parsed"
     /\ DeclaredAction(response).ok
     /\ BraceInString(DeclaredAction(response).val.v)
     /\ BuildAction(DeclaredAction(response).val.v, elements).type # "wait")
    => parsed = BuildAction(DeclaredAction(response).val.v, elements)

\* C4: the parser always returns an action, and for malformed JSON, an unknown
\* action kind or an invalid element reference that action is the wait of the
\* default duration.
C4_DegradesToDefaultWait ==
    ppc = "parsed" =>
        /\ parsed # NotParsed
        /\ (\/ ~ActionData(response).ok
            \/ UnknownKind(ActionData(response).val.v)
            \/ TapsNoElement(ActionData(response).val.v, elements))
           => IsDefaultWait(parsed)

(***************************************************************************)
(* ModelHandler (model_handler.py): the planner of the control loop        *)
(***************************************************************************)
\* the tokens of the model's texts whose lower case holds 'complete' or 'done'
CompletionWords == {"done", "Done", "complete", "task_complete"}

\* 'complete' in response.lower() or 'done' in response.lower()
HasCompletionLanguage(t) == \E i \in 1..Len(t) : t[i] \in CompletionWords

Dict3(reasoning, action, complete) ==
    (<<"reasoning">> :> reasoning) @@ (<<"action">> :> action)
    @@ (<<"task_complete">> :> complete)

WaitDict(duration) ==
    JObj((<<"type">> :> W("wait")) @@ (<<"duration">> :> JInt(duration)))

\* _fallback_action without its else branch
FallbackActionAlwaysComplete(t) ==
    Dict3(JStr(<<"Task", "appears", "complete">>), WaitDict(0), JBool(TRUE))

\* _fallback_action
FallbackAction(t) ==
    IF HasCompletionLanguage(t)
       THEN Dict3(JStr(<<"Task", "appears", "complete">>), WaitDict(0), JBool(TRUE))
    ELSE Dict3(JStr(<<"Waiting", "for", "next", "observation">>), WaitDict(2),
               JBool(FALSE))

\* response.rfind('}'), as a position from 1; 0 if there is none
LastIndex(t, tok) ==
    LET hits == {j \in 1..Len(t) : t[j] = tok}
    IN IF hits = {} THEN 0 ELSE CHOOSE j \in hits : \A h \in hits : j >= h

\* the text between the first "{" and the last "}" is JSON
JsonFound(t) ==
    /\ IndexFrom(t, LB, 1) > 0
    /\ LastIndex(t, RB) > IndexFrom(t, LB, 1)
    /\ JsonLoads(SubSeq(t, IndexFrom(t, LB, 1), LastIndex(t, RB))).ok

\* _parse_model_response
ParseModelResponse(t) ==
    IF JsonFound(t)
       THEN JsonLoads(SubSeq(t, IndexFrom(t, LB, 1), LastIndex(t, RB))).val.v
    ELSE FallbackAction(t)

\* the dict get_next_action returns when tokenizing, generating or decoding
\* raised
InferenceErrorAction ==
    Dict3(JStr(<<"Error", "in", "model", "inference">>), WaitDict(1), JBool(FALSE))

\* get_next_action: gen is the decoded text, or GenerationError when the
\* tokenizer or the model raised
GenerationError == <<"<raise>">>

GetNextAction(gen) ==
    IF gen = GenerationError THEN InferenceErrorAction ELSE ParseModelResponse(gen)

(***************************************************************************)
(* ActionExecutor (action_executor.py) and GUIAutomationAgent._execute_action*)
(***************************************************************************)
\* key.lower() for the key names of the model's texts
Lower(w) ==
    CASE w = "HOME" -> "home"
      [] w = "Back" -> "back"
      [] OTHER -> w

\* msg['role'].upper() for the roles of the history
Upper(w) ==
    CASE w = "system" -> "SYSTEM"
      [] w = "user" -> "USER"
      [] w = "assistant" -> "ASSISTANT"
      [] OTHER -> w

\* press_key's key_codes table
KeyCodes ==
    ("home" :> 3) @@ ("back" :> 4) @@ ("enter" :> 66) @@ ("menu" :> 82)
    @@ ("power" :> 26) @@ ("volume_up" :> 24) @@ ("volume_down" :> 25)
    @@ ("tab" :> 61) @@ ("space" :> 62) @@ ("delete" :> 67)

Raises == [kind |-> "raise"]

\* the executor method called with args; shell = TRUE when the method gets as
\* far as device.shell, FALSE when it returns False before
Call(op, args, shell) == [kind |-> "call", op |-> op, args |-> args, shell |-> shell]

\* time.sleep(secs) is a TypeError for a str, a dict or None and a ValueError
\* below zero
Sleeps(secs) ==
    IF secs.k \in {"int", "bool"} /\ IntOf(secs) >= 0
       THEN [kind |-> "sleep", secs |-> IntOf(secs)]
    ELSE Raises

HasAll(d, keys) == \A key \in keys : Has(d, key)

\* _execute_action, a a JSON value that is truthy: what it does before the
\* device answers.  action['x'] of a missing key is a KeyError and
\* action.get of a str or a number an AttributeError; both leave
\* _execute_action as exceptions.
ExecuteAction(a) ==
    IF a.k # "obj" THEN Raises
    ELSE LET d == a.v
             t == Get(d, "type", JNull)
         IN IF IsWord(t, "tap")
               THEN IF HasAll(d, {"x", "y"})
                       THEN Call("tap", <<d[<<"x">>], d[<<"y">>]>>, TRUE)
                    ELSE Raises
            ELSE IF IsWord(t, "swipe")
               THEN IF HasAll(d, {"start_x", "start_y", "end_x", "end_y"})
                       THEN Call("swipe",
                                 <<d[<<"start_x">>], d[<<"start_y">>],
                                   d[<<"end_x">>], d[<<"end_y">>]>>, TRUE)
                    ELSE Raises
            ELSE IF IsWord(t, "input_text")
               THEN IF Has(d, "text")
                       THEN Call("input_text", <<d[<<"text">>]>>,
                                 d[<<"text">>].k = "str")
                    ELSE Raises
            ELSE IF IsWord(t, "press_key")
               THEN IF Has(d, "key")
                       THEN Call("press_key", <<d[<<"key">>]>>,
                                 /\ d[<<"key">>].k = "str"
                                 /\ Len(d[<<"key">>].v) = 1
                                 /\ Lower(d[<<"key">>].v[1]) \in DOMAIN KeyCodes)
                    ELSE Raises
            ELSE IF IsWord(t, "wait") THEN Sleeps(Get(d, "duration", JInt(2)))
            ELSE [kind |-> "unknown"]

(***************************************************************************)
(* PerceptionModule.capture_screen_state (perception.py)                   *)
(***************************************************************************)
\* capture_screenshot: logs and re-raises whatever screencap, Image.open or
\* save raised
CaptureScreenshot(shot, size) ==
    IF shot = "ok" THEN [kind |-> "image", size |-> size] ELSE Raises

\* extract_ui_hierarchy: any exception of the dump, the cat, the decoding or
\* the XML parse is logged and answered with an empty hierarchy
ExtractUiHierarchy(dump, elems) ==
    IF dump = "ok" THEN [elements |-> elems, element_count |-> Len(elems)]
    ELSE [elements |-> <<>>, element_count |-> 0]

CaptureScreenState(in) ==
    LET screenshot == CaptureScreenshot(in.shot, in.size)
    IN IF screenshot = Raises THEN Raises
       ELSE [kind |-> "state",
             screenshot |-> screenshot,
             ui_hierarchy |-> ExtractUiHierarchy(in.dump, in.elems),
             screen_size |-> screenshot.size]

ScreenSizes == {<<1080, 1920>>, <<720, 1280>>, <<1920, 1080>>}

DumpOutcomes == {"ok", "dump_fails", "cat_fails", "xml_fails"}

CaptureInit ==
    /\ ParserIdle
    /\ LoopIdle
    /\ HierarchyIdle
    /\ KeysIdle
    /\ capIn \in [kind : {"input"}, shot : {"ok", "fails"}, size : ScreenSizes,
                  dump : DumpOutcomes,
                  elems : {Snapshot(n) : n \in 0..MaxElements}]
    /\ capOut = [kind |-> "none"]

Capture ==
    /\ capIn.kind = "input"
    /\ capOut.kind = "none"
    /\ capOut' = CaptureScreenState(capIn)
    /\ UNCHANGED <<capIn, pvars, lvars, hvars, kvars>>

CaptureNext == Capture

CaptureSpec == CaptureInit /\ [][CaptureNext]_vars

\* C6: capture_screen_state returns a screen state only when the screenshot
\* capture and the hierarchy dump both succeeded.
C6_CaptureAllOrNothing ==
    capOut.kind = "state" => capIn.shot = "ok" /\ capIn.dump = "ok"

(***************************************************************************)
(* GUIAutomationAgent.run_task (agent.py)                                  *)
(***************************************************************************)
MaxSteps == 6

\* the run_task calls made on one agent
MaxTasks == 2

\* the task descriptions run_task is called with
Tasks == {"open settings", "send mail"}

\* the screen the executor's device has
DeviceWidth == 1080

DeviceHeight == 1920

Obj(ms) == <<LB>> \o JoinMembers(ms) \o <<RB>>

TypeMember(kind) == Member("type", Quoted(<<kind>>))

\* the "action" member of a planner text (<<>>: the member is absent)
ActionOpts ==
    {<<>>,
     Member("action", Obj(<<TypeMember("tap"), Member("x", <<"7">>),
                            Member("y", <<"9">>)>>)),
     Member("action", Obj(<<TypeMember("tap"), Member("x", <<"5000">>),
                            Member("y", <<"-3">>)>>)),
     Member("action", Obj(<<TypeMember("tap"), Member("x", <<"7">>)>>)),
     Member("action", Obj(<<TypeMember("swipe"), Member("start_x", <<"5">>),
                            Member("start_y", <<"1">>), Member("end_x", <<"5">>),
                            Member("end_y", <<"5000">>)>>)),
     Member("action", Obj(<<TypeMember("input_text"),
                            Member("text", Quoted(<<"hi">>))>>)),
     Member("action", Obj(<<TypeMember("press_key"),
                            Member("key", Quoted(<<"HOME">>))>>)),
     Member("action", Obj(<<TypeMember("press_key"),
                            Member("key", Quoted(<<"fly">>))>>)),
     Member("action", Obj(<<TypeMember("wait"), Member("duration", <<"1">>)>>)),
     Member("action", Obj(<<TypeMember("wait"), Member("duration", <<"-1">>)>>)),
     Member("action", Obj(<<TypeMember("task_complete")>>)),
     Member("action", Quoted(<<"tap">>)),
     Member("action", Obj(<<>>))}

CompleteOpts ==
    {<<>>, Member("task_complete", <<"false">>), Member("task_complete", <<"true">>)}

\* what the model may decode: an object with or without its closing brace, or
\* prose
PlannerTexts ==
    {Obj(<<Member("reasoning", Quoted(<<"ok">>)), a, c>>) :
        a \in ActionOpts, c \in CompleteOpts}
    \cup {<<LB>> \o JoinMembers(<<a, c>>) : a \in ActionOpts, c \in CompleteOpts}
    \cup {<<"I", "am", "done">>, <<"no", "idea">>, <<>>,
          <<"press", LB, "OK", RB>>}
    \cup {Obj(<<Member("reasoning", Quoted(<<"Task", "appears", "complete">>)),
                Member("action", Obj(<<TypeMember("wait"),
                                       Member("duration", <<"0">>)>>)),
                Member("task_complete", <<"true">>)>>)}

Message(role, content) == [role |-> role, content |-> content]

\* the history run_task starts with: the system prompt, then
\* "Task: <task_description>" (kept as the description)
InitialHistory(task) == <<Message("system", "prompt"), Message("user", task)>>

\* a Python bool as run_task holds it in success and returns it
PyBool(ok) == IF ok THEN "True" ELSE "False"

\* what run_task returns when it leaves by the statement named: True at the
\* task_complete test, False everywhere else; from the except clause the
\* exception of save_error_screenshot instead, when it is configured and fails
ReturnValues(by, cfg) ==
    CASE by = "complete" -> {PyBool(TRUE)}
      [] by \in {"no_screen", "no_action", "exhausted"} -> {PyBool(FALSE)}
      [] by = "exception" ->
            IF cfg.screenshot_on_error THEN {PyBool(FALSE), "raised"}
            ELSE {PyBool(FALSE)}

\* a failed action ending the task
AfterExecutionFailureEnds(ok) == IF ok THEN "loop" ELSE "done"

\* where run_task goes after _execute_action returned: a failure is logged
\* and recorded, and the step ends as a success does
AfterExecution(ok) == "loop"

\* the while condition with <= for <
LoopContinuesOffByOne(step, max) == step <= max

\* the while condition of run_task
LoopContinues(step, max) == step < max

\* action_response.get('task_complete', False)
TaskComplete(resp) == Truthy(Get(resp, "task_complete", JBool(FALSE)))

\* the capture test without "if not screen_data"
AfterCaptureNoneGoesOn(screen) ==
    CASE screen.kind = "state" -> "plan"
      [] screen.kind = "none" -> "plan"
      [] screen.kind = "raise" -> "error"

\* where run_task goes with what capture_screen_state gave: a falsy result
\* returns False, an exception goes to the except clause
AfterCapture(screen) ==
    CASE screen.kind = "state" -> "plan"
      [] screen.kind = "none" -> "done"
      [] screen.kind = "raise" -> "error"

\* the planner's answer read without the task_complete test
AfterPlanningNoCompleteTest(resp) ==
    IF ~Truthy(Get(resp, "action", JNull)) THEN "no_action" ELSE "execute"

\* where run_task goes with the planner's answer
AfterPlanning(resp) ==
    IF TaskComplete(resp) THEN "complete"
    ELSE IF ~Truthy(Get(resp, "action", JNull)) THEN "no_action"
    ELSE "execute"

\* the messages of the history _build_prompt puts into the prompt
HistoryWindow == 5

\* conversation_history[-5:]
LastMessages(history) ==
    SubSeq(history,
           IF Len(history) > HistoryWindow THEN Len(history) - HistoryWindow + 1 ELSE 1,
           Len(history))

\* the "Conversation History:" part of the prompt: ROLE and content of each
\* message of the window; nothing else of the prompt comes from the history
\* or from the task
PromptContext(history) ==
    [i \in 1..Len(LastMessages(history)) |->
        [role |-> Upper(LastMessages(history)[i].role),
         content |-> LastMessages(history)[i].content]]

\* the message appended after _execute_action returned success; the text
\* after the prefix (the action, the reasoning) is not kept
HistoryEntry(ok) ==
    IF ok THEN Message("assistant", "Executed")
    ELSE Message("assistant", "Action failed")

LoopInit ==
    /\ ParserIdle
    /\ CaptureIdle
    /\ HierarchyIdle
    /\ KeysIdle
    /\ pc = "idle"
    /\ config \in [max_steps : 0..MaxSteps, screenshot_on_error : BOOLEAN]
    /\ current_step = 0
    /\ conversation_history = <<>>
    /\ screen_data = NoScreen
    /\ response_text = NoResponse
    /\ action_response = EmptyDict
    /\ returned = "none"
    /\ exit = "none"
    /\ step_calls = NoCalls
    /\ last_exec = NoExec
    /\ success = "none"
    /\ task_description = "none"
    /\ calls = 0

\* run_task without "self.current_step = 0"
StartTaskKeepsStep ==
    /\ pc = "idle"
    /\ calls < MaxTasks
    /\ \E task \in Tasks :
          /\ task_description' = task
          /\ conversation_history' = InitialHistory(task)
    /\ calls' = calls + 1
    /\ pc' = "loop"
    /\ UNCHANGED <<config, current_step, screen_data, response_text,
                   action_response, returned, exit, step_calls, last_exec,
                   success, pvars, cvars, hvars, kvars>>

\* run_task up to the while loop
StartTask ==
    /\ pc = "idle"
    /\ calls < MaxTasks
    /\ \E task \in Tasks :
          /\ task_description' = task
          /\ conversation_history' = InitialHistory(task)
    /\ calls' = calls + 1
    /\ current_step' = 0
    /\ pc' = "loop"
    /\ UNCHANGED <<config, screen_data, response_text, action_response, returned,
                   exit, step_calls, last_exec, success, pvars, cvars, hvars,
                   kvars>>

\* the while condition holds: the step is counted.  The locals of the last
\* iteration are dead from here on and are cleared.
Iterate ==
    /\ pc = "loop"
    /\ LoopContinues(current_step, config.max_steps)
    /\ current_step' = current_step + 1
    /\ pc' = "perceive"
    /\ screen_data' = NoScreen
    /\ response_text' = NoResponse
    /\ action_response' = EmptyDict
    /\ step_calls' = NoCalls
    /\ last_exec' = NoExec
    /\ success' = "none"
    /\ UNCHANGED <<config, conversation_history, returned, exit,
                   task_description, calls, pvars, cvars, hvars, kvars>>

\* the while condition fails: "Task not completed within max_steps steps"
Exhaust ==
    /\ pc = "loop"
    /\ ~LoopContinues(current_step, config.max_steps)
    /\ returned' \in ReturnValues("exhausted", config)
    /\ exit' = "exhausted"
    /\ pc' = "done"
    /\ UNCHANGED <<config, current_step, conversation_history, screen_data,
                   response_text, action_response, step_calls, last_exec,
                   success, task_description, calls, pvars, cvars, hvars, kvars>>

\* self.perception.capture_screen_state(): a state, a falsy value, or an
\* exception
Perceive ==
    /\ pc = "perceive"
    /\ \E kind \in {"state", "none", "raise"} :
          /\ screen_data' = [kind |-> kind]
          /\ pc' = AfterCapture([kind |-> kind])
          /\ IF AfterCapture([kind |-> kind]) = "done"
                THEN /\ returned' \in ReturnValues("no_screen", config)
                     /\ exit' = "no_screen"
             ELSE UNCHANGED <<returned, exit>>
    /\ UNCHANGED <<config, current_step, conversation_history, response_text,
                   action_response, step_calls, last_exec, success,
                   task_description, calls, pvars, cvars, hvars, kvars>>

\* self.model.get_next_action(...)
Plan ==
    /\ pc = "plan"
    /\ \E gen \in PlannerTexts \cup {GenerationError} :
          /\ response_text' = gen
          /\ action_response' = GetNextAction(gen)
    /\ step_calls' = [step_calls EXCEPT !.planner = @ + 1]
    /\ pc' = "decide"
    /\ UNCHANGED <<config, current_step, conversation_history, screen_data,
                   returned, exit, last_exec, success, task_description, calls,
                   pvars, cvars, hvars, kvars>>

\* the task_complete test and the "No action received" test
Decide ==
    /\ pc = "decide"
    /\ LET to == AfterPlanning(action_response)
       IN IF to \in {"complete", "no_action"}
             THEN /\ returned' \in ReturnValues(to, config)
                  /\ exit' = to
                  /\ pc' = "done"
          ELSE pc' = "execute" /\ UNCHANGED <<returned, exit>>
    /\ UNCHANGED <<config, current_step, conversation_history, screen_data,
                   response_text, action_response, step_calls, last_exec,
                   success, task_description, calls, pvars, cvars, hvars, kvars>>

\* _execute_action raised (KeyError, AttributeError, TypeError, ValueError)
ExecuteRaises ==
    /\ pc = "execute"
    /\ ExecuteAction(action_response[<<"action">>]) = Raises
    /\ pc' = "error"
    /\ UNCHANGED <<config, current_step, conversation_history, screen_data,
                   response_text, action_response, returned, exit, step_calls,
                   last_exec, success, task_description, calls, pvars, cvars,
                   hvars, kvars>>

\* _execute_action called a method of the executor; the method answers False
\* when device.shell raised or when it gave up before, True otherwise
ExecuteCall ==
    /\ pc = "execute"
    /\ LET cmd == ExecuteAction(action_response[<<"action">>])
       IN /\ cmd.kind = "call"
          /\ \E shell_ok \in BOOLEAN :
                /\ last_exec' = cmd
                /\ success' = PyBool(cmd.shell /\ shell_ok)
                /\ conversation_history' =
                      Append(conversation_history, HistoryEntry(cmd.shell /\ shell_ok))
                /\ pc' = AfterExecution(cmd.shell /\ shell_ok)
    /\ step_calls' = [step_calls EXCEPT !.executor = @ + 1]
    /\ UNCHANGED <<config, current_step, screen_data, response_text,
                   action_response, returned, exit, task_description, calls,
                   pvars, cvars, hvars, kvars>>

\* a wait or an unknown type that leaves no entry in the history
ExecuteLocalNoRecord ==
    /\ pc = "execute"
    /\ LET cmd == ExecuteAction(action_response[<<"action">>])
       IN /\ cmd.kind \in {"sleep", "unknown"}
          /\ last_exec' = cmd
          /\ success' = PyBool(cmd.kind = "sleep")
          /\ pc' = AfterExecution(cmd.kind = "sleep")
    /\ UNCHANGED <<config, current_step, conversation_history, screen_data,
                   response_text, action_response, returned, exit, step_calls,
                   task_description, calls, pvars, cvars, hvars, kvars>>

\* _execute_action handled the action itself: a wait sleeps and is a success,
\* an unknown type is logged and is a failure
ExecuteLocal ==
    /\ pc = "execute"
    /\ LET cmd == ExecuteAction(action_response[<<"action">>])
       IN /\ cmd.kind \in {"sleep", "unknown"}
          /\ last_exec' = cmd
          /\ success' = PyBool(cmd.kind = "sleep")
          /\ conversation_history' =
                Append(conversation_history, HistoryEntry(cmd.kind = "sleep"))
          /\ pc' = AfterExecution(cmd.kind = "sleep")
    /\ UNCHANGED <<config, current_step, screen_data, response_text,
                   action_response, returned, exit, step_calls, task_description,
                   calls, pvars, cvars, hvars, kvars>>

\* the except clause: the error screenshot, when configured, then return
\* False; save_error_screenshot may itself raise, out of run_task
HandleError ==
    /\ pc = "error"
    /\ exit' = "exception"
    /\ returned' \in ReturnValues("exception", config)
    /\ pc' = "done"
    /\ UNCHANGED <<config, current_step, conversation_history, screen_data,
                   response_text, action_response, step_calls, last_exec,
                   success, task_description, calls, pvars, cvars, hvars, kvars>>

LoopNext ==
    \/ StartTask
    \/ Iterate
    \/ Exhaust
    \/ Perceive
    \/ Plan
    \/ Decide
    \/ ExecuteRaises
    \/ ExecuteCall
    \/ ExecuteLocal
    \/ HandleError

LoopSpec == LoopInit /\ [][LoopNext]_vars

\* a coordinate inside [0, limit)
Inside(c, limit) == c.k = "int" /\ 0 <= c.v /\ c.v < limit

\* C5: every tap and swipe coordinate handed to the executor lies inside the
\* screen: x in [0, width) and y in [0, height).
C5_CoordinatesInsideScreen ==
    (last_exec.kind = "call" /\ last_exec.op \in {"tap", "swipe"})
    => \A i \in 1..Len(last_exec.args) :
          Inside(last_exec.args[i],
                 IF i % 2 = 1 THEN DeviceWidth ELSE DeviceHeight)

\* C7: on a step whose capture gave no state or raised, run_task goes to its
\* end without a planner call and without an executor call, and does not
\* return True.
C7_CaptureFailureIsFatal ==
    screen_data.kind \in {"none", "raise"} =>
        /\ pc \in {"error", "done"}
        /\ step_calls = NoCalls
        /\ last_exec = NoExec
        /\ pc = "done" => /\ returned \in {"False", "raised"}
                          /\ exit \in {"no_screen", "exception"}

C7_Witness ==
    /\ screen_data.kind = "none"
    /\ pc = "done"
    /\ current_step = 2
    /\ Len(conversation_history) = 3

\* how far run_task is from its end: the steps left, then the statements left
\* in the step
Rank ==
    CASE pc = "done" -> 0
      [] pc = "idle" -> 6 * (config.max_steps + 1) + 1
      [] pc = "loop" -> 6 * (config.max_steps - current_step) + 1
      [] pc = "perceive" -> 6 * (config.max_steps - current_step) + 6
      [] pc = "plan" -> 6 * (config.max_steps - current_step) + 5
      [] pc = "decide" -> 6 * (config.max_steps - current_step) + 4
      [] pc = "execute" -> 6 * (config.max_steps - current_step) + 3
      [] pc = "error" -> 6 * (config.max_steps - current_step) + 2

StepBudget ==
    /\ current_step <= config.max_steps
    /\ Rank >= 0
    /\ pc = "done" =>
          exit \in {"complete", "no_screen", "no_action", "exception", "exhausted"}
    /\ exit = "exhausted" =>
          /\ current_step = config.max_steps
          /\ Len(conversation_history) = 2 + config.max_steps

\* C8: step_count never exceeds max_steps, a run that ends Exhausted has made
\* exactly max_steps iterations, and every statement of run_task brings its
\* end nearer, so the run ends after at most max_steps iterations.
C8_StepBudget == []StepBudget /\ [][Rank' < Rank]_vars

C8_Witness ==
    /\ pc = "done"
    /\ exit = "exhausted"
    /\ current_step = config.max_steps
    /\ current_step >= 2

\* C9: when the planner's answer says task_complete, run_task returns True on
\* that step without invoking the executor and without starting another step.
C9_TaskCompleteCompletes ==
    (TaskComplete(action_response) /\ pc # "decide") =>
        /\ pc = "done"
        /\ returned = "True"
        /\ exit = "complete"
        /\ step_calls.executor = 0
        /\ last_exec = NoExec

C9_Witness ==
    /\ TaskComplete(action_response)
    /\ Truthy(Get(action_response, "action", JNull))
    /\ JsonFound(response_text)
    /\ pc = "done"
    /\ current_step = 2

\* the model decoded a text on this step
Decoded(t) == t \notin {NoResponse, GenerationError}

\* the step ran to its end and the task goes on: the while test is next, or
\* has just found the step budget used up
StepOver == pc = "loop" \/ (pc = "done" /\ exit = "exhausted")

\* C10 as claimed: for every unparseable planner text the step's action is the
\* default wait and the task does not end on that step.
C10_UnparseableGivesWait ==
    (Decoded(response_text) /\ ~JsonFound(response_text) /\ pc # "decide") =>
        /\ IsWord(action_response[<<"action">>].v[<<"type">>], "wait")
        /\ pc = "execute" \/ StepOver

\* C10 as amended: for every unparseable planner text that holds neither
\* 'complete' nor 'done', the step's action is wait with duration 2, the step
\* ends neither Completed nor Failed, and it is counted exactly once.
C10_UnparseableWithoutCompletionGivesWait ==
    (/\ Decoded(response_text)
     /\ ~JsonFound(response_text)
     /\ ~HasCompletionLanguage(response_text)) =>
        /\ action_response[<<"action">>] = WaitDict(2)
        /\ ~TaskComplete(action_response)
        /\ pc \in {"decide", "execute"} \/ StepOver
        /\ StepOver =>
              /\ last_exec = [kind |-> "sleep", secs |-> 2]
              /\ Len(conversation_history) = 2 + current_step
              /\ conversation_history[Len(conversation_history)] = HistoryEntry(TRUE)

C10_Witness ==
    /\ response_text = <<"press", LB, "OK", RB>>
    /\ pc = "loop"
    /\ current_step = 2
    /\ last_exec.kind = "sleep"

\* a failed step is over with its failure recorded as the last entry
FailureRecorded ==
    /\ step_calls.executor <= 1
    /\ success = PyBool(FALSE) =>
          /\ StepOver
          /\ returned # PyBool(TRUE)
          /\ conversation_history[Len(conversation_history)] = HistoryEntry(FALSE)
          /\ Len(conversation_history) = 2 + current_step

\* after a failed step the while test is all that decides: the next capture
\* when steps are left, Exhausted when none is
GoesOnAfterFailure ==
    (success = PyBool(FALSE) /\ pc = "loop") =>
        IF current_step < config.max_steps
           THEN pc' = "perceive" /\ current_step' = current_step + 1
        ELSE pc' = "done" /\ exit' = "exhausted"

\* C11: the executor is invoked at most once in an iteration, and when the
\* action fails the failure is recorded in the history and the loop goes on
\* to the next capture, subject only to the step budget, with the error
\* screenshot configured or not.
C11_FailureRecordedAndLoopGoesOn == []FailureRecorded /\ [][GoesOnAfterFailure]_vars

C11_Witness ==
    /\ success = PyBool(FALSE)
    /\ last_exec.kind = "call"
    /\ step_calls.executor = 1
    /\ pc = "loop"
    /\ current_step = 2
    /\ config.max_steps > 2
    /\ config.screenshot_on_error

\* the run ended as Failed: by a return False inside the loop or by the
\* except clause
Failed == pc = "done" /\ exit \in {"no_screen", "no_action", "exception"}

\* C12: a planner answer without an action, an unknown action type and an
\* action missing a required field do not end the task on every
\* configuration: a run that ends Failed whatever config['agent'] holds has
\* failed on its capture.
C12_OnlyCaptureFailureIsFatal ==
    Failed => screen_data.kind \in {"none", "raise"}

\* the statements run_task leaves by
Exits == {"complete", "no_screen", "no_action", "exception", "exhausted"}

\* the outcome each of them stands for
Outcome(by) ==
    CASE by = "complete" -> "Completed"
      [] by = "exhausted" -> "Exhausted"
      [] OTHER -> "Failed"

\* C13: a finished run has left by exactly one statement, and what run_task
\* gave its caller is something no run of another outcome gives: the result
\* tells Completed, Failed and Exhausted apart.
C13_ResultTellsOutcome ==
    pc = "done" =>
        /\ exit \in Exits
        /\ \A by \in Exits :
              Outcome(by) # Outcome(exit) => returned \notin ReturnValues(by, config)

\* the task description is among the messages of the prompt
TaskInPrompt(context) ==
    \E i \in 1..Len(context) :
        context[i] = [role |-> "USER", content |-> task_description]

\* C14: at every planner call the prompt holds the task description, and
\* holds no more than HistoryWindow messages of the history.
C14_TaskDescriptionInWindow ==
    pc \in {"plan", "decide"} =>
        /\ TaskInPrompt(PromptContext(conversation_history))
        /\ Len(PromptContext(conversation_history)) <= HistoryWindow

\* the answer came from JSON the planner wrote
Explicit(t) == Decoded(t) /\ JsonFound(t)

\* the answer came from _fallback_action's reading of the text
Heuristic(t) == Decoded(t) /\ ~JsonFound(t)

\* C15: the record of a completion the planner stated in its JSON is the
\* record of no completion inferred from the words of an unparseable text.
C15_ProvenanceDistinguishable ==
    (Explicit(response_text) /\ TaskComplete(action_response)) =>
        \A t \in PlannerTexts :
            Heuristic(t) => action_response # GetNextAction(t)

(***************************************************************************)
(* PerceptionModule._parse_ui_elements (perception.py)                     *)
(*                                                                         *)
(* A node of the dump is [tag, attrib, children]; attrib is a function     *)
(* from the attribute names the node has to their values.  A bounds value  *)
(* is a sequence of tokens: the brackets, the comma and the blank are      *)
(* tokens of their own, every other token is a numeral or a word.          *)
(***************************************************************************)
LBK == "["

RBK == "]"

SP == " "

\* child.attrib.get(name, default)
AttribGet(attrib, name, default) ==
    IF name \in DOMAIN attrib THEN attrib[name] ELSE default

\* the default of the bounds attribute, '[0,0][0,0]'
DefaultBounds == <<LBK, "0", COMMA, "0", RBK, LBK, "0", COMMA, "0", RBK>>

ZeroRect == [x1 |-> 0, y1 |-> 0, x2 |-> 0, y2 |-> 0]

\* bounds_str.replace('][', ',')
RECURSIVE ReplaceCloseOpen(_)
ReplaceCloseOpen(t) ==
    IF Len(t) < 2 THEN t
    ELSE IF t[1] = RBK /\ t[2] = LBK
       THEN <<COMMA>> \o ReplaceCloseOpen(SubSeq(t, 3, Len(t)))
    ELSE <<t[1]>> \o ReplaceCloseOpen(Tail(t))

\* .replace('[', '').replace(']', '')
RemoveBrackets(t) == SelectSeq(t, LAMBDA tok : tok \notin {LBK, RBK})

\* .split(','): the pieces between the commas, at least one
RECURSIVE Split(_)
Split(t) ==
    IF IndexFrom(t, COMMA, 1) = 0 THEN <<t>>
    ELSE <<SubSeq(t, 1, IndexFrom(t, COMMA, 1) - 1)>>
         \o Split(SubSeq(t, IndexFrom(t, COMMA, 1) + 1, Len(t)))

\* str.strip() of a piece
RECURSIVE Strip(_)
Strip(t) ==
    IF t = <<>> THEN t
    ELSE IF t[1] = SP THEN Strip(Tail(t))
    ELSE IF t[Len(t)] = SP THEN Strip(SubSeq(t, 1, Len(t) - 1))
    ELSE t

\* int(piece) succeeds: blanks around one numeral
IsInt(piece) == Len(Strip(piece)) = 1 /\ Strip(piece)[1] \in DOMAIN NumeralValue

\* int(piece)
PyInt(piece) == NumeralValue[Strip(piece)[1]]

\* _parse_bounds: the first four pieces as integers, the zero rect when
\* there are fewer than four or one of the four is no integer
ParseBounds(bounds_str) ==
    LET coords == Split(RemoveBrackets(ReplaceCloseOpen(bounds_str)))
    IN IF Len(coords) >= 4 /\ \A i \in 1..4 : IsInt(coords[i])
          THEN [x1 |-> PyInt(coords[1]), y1 |-> PyInt(coords[2]),
                x2 |-> PyInt(coords[3]), y2 |-> PyInt(coords[4])]
       ELSE ZeroRect

\* _calculate_center
CalculateCenter(bounds) ==
    [x |-> (bounds.x1 + bounds.x2) \div 2, y |-> (bounds.y1 + bounds.y2) \div 2]

\* the element dict of a child at element_path
Element(child, element_path) ==
    [path |-> element_path,
     class |-> AttribGet(child.attrib, "class", ""),
     text |-> AttribGet(child.attrib, "text", ""),
     content_desc |-> AttribGet(child.attrib, "content-desc", ""),
     resource_id |-> AttribGet(child.attrib, "resource-id", ""),
     clickable |-> AttribGet(child.attrib, "clickable", "false") = "true",
     scrollable |-> AttribGet(child.attrib, "scrollable", "false") = "true",
     enabled |-> AttribGet(child.attrib, "enabled", "true") = "true",
     bounds |-> ParseBounds(AttribGet(child.attrib, "bounds", DefaultBounds)),
     center |-> CalculateCenter(
                    ParseBounds(AttribGet(child.attrib, "bounds", DefaultBounds)))]

\* the test with the clickable flag alone
IncludedClickableOnly(element) == element.clickable

\* "Only include interactive or informative elements"
Included(element) ==
    \/ element.clickable
    \/ element.scrollable
    \/ element.text # ""
    \/ element.content_desc # ""

\* f"{parent_path}/{child.tag}[{idx}]": the path as its steps
ElementPath(parent_path, tag, idx) == Append(parent_path, [tag |-> tag, idx |-> idx])

RECURSIVE ParseUiElements(_, _)
RECURSIVE ParseChildrenFrom(_, _, _)
RECURSIVE ParseChildrenFromChildrenFirst(_, _, _)

\* the loop of _parse_ui_elements with the recursion before the append
ParseChildrenFromChildrenFirst(nodes, parent_path, i) ==
    IF i > Len(nodes) THEN <<>>
    ELSE LET element_path == ElementPath(parent_path, nodes[i].tag, i - 1)
             element == Element(nodes[i], element_path)
         IN ParseUiElements(nodes[i].children, element_path)
            \o (IF Included(element) THEN <<element>> ELSE <<>>)
            \o ParseChildrenFrom(nodes, parent_path, i + 1)

\* the loop of _parse_ui_elements from the i-th child on (idx = i - 1)
ParseChildrenFrom(nodes, parent_path, i) ==
    IF i > Len(nodes) THEN <<>>
    ELSE LET element_path == ElementPath(parent_path, nodes[i].tag, i - 1)
             element == Element(nodes[i], element_path)
         IN (IF Included(element) THEN <<element>> ELSE <<>>)
            \o ParseUiElements(nodes[i].children, element_path)
            \o ParseChildrenFrom(nodes, parent_path, i + 1)

\* _parse_ui_elements(root, parent_path), nodes the children of root
ParseUiElements(nodes, parent_path) == ParseChildrenFrom(nodes, parent_path, 1)

\* the nodes of a dump
MaxNodes == 3

\* the attributes a node of the dumps has
NodeAttribs ==
    {\* a layout container
     ("class" :> "FrameLayout")
        @@ ("bounds" :> <<LBK, "0", COMMA, "0", RBK, LBK, "400", COMMA, "400", RBK>>),
     \* a button
     ("class" :> "Button") @@ ("clickable" :> "true") @@ ("text" :> "")
        @@ ("bounds" :> <<LBK, "100", COMMA, "200", RBK, LBK, "300", COMMA, "400", RBK>>),
     \* a label whose bounds hold a blank
     ("text" :> "OK") @@ ("clickable" :> "false")
        @@ ("bounds" :> <<LBK, "100", COMMA, SP, "200", RBK, LBK, "300", COMMA, "400", RBK>>),
     \* a list whose bounds are no bounds
     ("scrollable" :> "true") @@ ("bounds" :> <<"bad">>),
     \* an image with a description and no bounds attribute
     ("content-desc" :> "menu") @@ ("enabled" :> "false"),
     \* a button without brackets around its bounds
     ("clickable" :> "true")
        @@ ("bounds" :> <<"100", COMMA, "200", COMMA, "300", COMMA, "400">>),
     \* a container with one corner only
     ("content-desc" :> "") @@ ("bounds" :> <<LBK, "1", COMMA, "2", RBK>>),
     \* a button whose second corner lies before its first
     ("clickable" :> "true") @@ ("text" :> "Go")
        @@ ("bounds" :> <<LBK, "300", COMMA, "400", RBK, LBK, "1", COMMA, "2", RBK>>)}

\* the forests of exactly n nodes
RECURSIVE Forests(_)
Forests(n) ==
    IF n = 0 THEN {<<>>}
    ELSE UNION {{<<[tag |-> "node", attrib |-> a, children |-> c]>> \o rest :
                    a \in NodeAttribs, c \in Forests(k), rest \in Forests(n - 1 - k)} :
                k \in 0..(n - 1)}

HierarchyInit ==
    /\ ParserIdle
    /\ CaptureIdle
    /\ LoopIdle
    /\ KeysIdle
    /\ root \in UNION {Forests(n) : n \in 0..MaxNodes}
    /\ ui_elements = <<>>
    /\ hpc = "ready"

\* extract_ui_hierarchy's call of _parse_ui_elements
ParseHierarchy ==
    /\ hpc = "ready"
    /\ ui_elements' = ParseUiElements(root, <<>>)
    /\ hpc' = "parsed"
    /\ UNCHANGED <<root, pvars, cvars, lvars, kvars>>

HierarchyNext == ParseHierarchy

HierarchySpec == HierarchyInit /\ [][HierarchyNext]_vars

\* every node of the dump with its path, found without regard to order
RECURSIVE NodesOf(_, _)
NodesOf(nodes, parent_path) ==
    UNION {{[path |-> ElementPath(parent_path, nodes[i].tag, i - 1), node |-> nodes[i]]}
           \cup NodesOf(nodes[i].children,
                        ElementPath(parent_path, nodes[i].tag, i - 1)) :
           i \in 1..Len(nodes)}

NodeAt(path) == (CHOOSE n \in NodesOf(root, <<>>) : n.path = path).node

\* the inclusion condition on the attributes of the dump's node
Emittable(node) ==
    \/ AttribGet(node.attrib, "clickable", "false") = "true"
    \/ AttribGet(node.attrib, "scrollable", "false") = "true"
    \/ AttribGet(node.attrib, "text", "") # ""
    \/ AttribGet(node.attrib, "content-desc", "") # ""

EmittedPaths == {ui_elements[i].path : i \in 1..Len(ui_elements)}

EmittablePaths == {n.path : n \in {m \in NodesOf(root, <<>>) : Emittable(m.node)}}

\* C16: a node's descriptor is in the output if and only if the node is
\* clickable, or scrollable, or has a text, or has a content description;
\* it is there once.
C16_InclusionInvariant ==
    hpc = "parsed" =>
        /\ EmittedPaths = EmittablePaths
        /\ Len(ui_elements) = Cardinality(EmittablePaths)

C16_Witness ==
    /\ hpc = "parsed"
    /\ Len(ui_elements) = 2
    /\ Cardinality(NodesOf(root, <<>>)) = 3
    /\ \E i \in 1..2 : ~ui_elements[i].clickable /\ ui_elements[i].text = "OK"

\* the grammar [x1,y1][x2,y2], integers, no blank
WellFormedBounds(t) ==
    /\ Len(t) = 10
    /\ <<t[1], t[3], t[5], t[6], t[8], t[10]>> = <<LBK, COMMA, RBK, LBK, COMMA, RBK>>
    /\ \A i \in {2, 4, 7, 9} : t[i] \in DOMAIN NumeralValue

\* C17: a node whose bounds string is not of the grammar [x1,y1][x2,y2] gets
\* the zero rect, and the nodes beside and below it are still parsed.
C17_MalformedBoundsGiveZeroRect ==
    hpc = "parsed" =>
        /\ EmittedPaths = EmittablePaths
        /\ \A i \in 1..Len(ui_elements) :
              ~WellFormedBounds(AttribGet(NodeAt(ui_elements[i].path).attrib,
                                          "bounds", DefaultBounds))
              => ui_elements[i].bounds = ZeroRect

\* p comes before q in the depth-first pre-order: p is an ancestor of q, or
\* where the two paths part p takes the earlier child
PathBefore(p, q) ==
    \E k \in 1..Len(q) :
        /\ \A m \in 1..(k - 1) : m <= Len(p) /\ p[m] = q[m]
        /\ \/ k = Len(p) + 1
           \/ k <= Len(p) /\ p[k].idx < q[k].idx

\* an ancestor of the node at path is not emitted
HiddenAncestor(path) ==
    \E k \in 1..(Len(path) - 1) : ~Emittable(NodeAt(SubSeq(path, 1, k)))

\* C20: the descriptors come in depth-first pre-order, and a node that is not
\* emitted hides none of its descendants.
C20_PreOrder ==
    hpc = "parsed" =>
        /\ \A i, j \in 1..Len(ui_elements) :
              i < j => PathBefore(ui_elements[i].path, ui_elements[j].path)
        /\ \A path \in EmittablePaths : HiddenAncestor(path) => path \in EmittedPaths

C20_Witness ==
    /\ hpc = "parsed"
    /\ Len(root) = 2
    /\ Len(root[1].children) = 1
    /\ Len(ui_elements) = 2
    /\ \E path \in EmittedPaths : HiddenAncestor(path)

(***************************************************************************)
(* press_key of the two executors: action.py runs adb as a subprocess,     *)
(* action_executor.py talks to the device through the adb client.          *)
(*                                                                         *)
(* A key name is its letters in lower case together with the case it is    *)
(* written in: [letters |-> "home", case |-> "capital"] is 'Home'.         *)
(***************************************************************************)
\* key.upper()
UpperKey(k) == [k EXCEPT !.case = "upper"]

\* key.lower()
LowerKey(k) == [k EXCEPT !.case = "lower"]

Spelled(letters, case) == [letters |-> letters, case |-> case]

\* key_codes of action.py: upper-case names, codes as strings
ShellKeyCodes ==
    (Spelled("home", "upper") :> 3) @@ (Spelled("back", "upper") :> 4)
    @@ (Spelled("enter", "upper") :> 66) @@ (Spelled("delete", "upper") :> 67)
    @@ (Spelled("menu", "upper") :> 82) @@ (Spelled("power", "upper") :> 26)
    @@ (Spelled("volume_up", "upper") :> 24)
    @@ (Spelled("volume_down", "upper") :> 25)

\* key_codes of action_executor.py: lower-case names
ClientKeyCodes ==
    [k \in {Spelled(name, "lower") : name \in DOMAIN KeyCodes} |-> KeyCodes[k.letters]]

\* the argument of "input keyevent": a key code, or the name as it was given
SendsCode(code) == [kind |-> "code", code |-> code]

SendsName(k) == [kind |-> "name", key |-> k]

\* action.py press_key: key_codes.get(key.upper(), key)
ShellPressKey(k) ==
    IF UpperKey(k) \in DOMAIN ShellKeyCodes THEN SendsCode(ShellKeyCodes[UpperKey(k)])
    ELSE SendsName(k)

\* action_executor.py press_key: key_codes.get(key.lower()), False and
\* nothing sent for a name that is not in the table
ClientPressKey(k) ==
    IF LowerKey(k) \in DOMAIN ClientKeyCodes THEN SendsCode(ClientKeyCodes[LowerKey(k)])
    ELSE [kind |-> "refused"]

\* the ten key names of the key table
KeyNames ==
    {"home", "back", "enter", "delete", "menu", "power", "volume_up",
     "volume_down", "tab", "space"}

LetterCases == {"lower", "upper", "capital"}

KeysInit ==
    /\ ParserIdle
    /\ CaptureIdle
    /\ LoopIdle
    /\ HierarchyIdle
    /\ key_name \in {Spelled(name, case) :
                        name \in KeyNames \cup {"fly"}, case \in LetterCases}
    /\ sent = NothingSent

PressKeyShell ==
    /\ key_name.letters # "none"
    /\ sent.shell.kind = "none"
    /\ sent' = [sent EXCEPT !.shell = ShellPressKey(key_name)]
    /\ UNCHANGED <<key_name, pvars, cvars, lvars, hvars>>

PressKeyClient ==
    /\ key_name.letters # "none"
    /\ sent.client.kind = "none"
    /\ sent' = [sent EXCEPT !.client = ClientPressKey(key_name)]
    /\ UNCHANGED <<key_name, pvars, cvars, lvars, hvars>>

KeysNext == PressKeyShell \/ PressKeyClient

KeysSpec == KeysInit /\ [][KeysNext]_vars

\* C18: for each of the ten key names, in any letter case, each press_key
\* sends a numeric key code, and the two executors send the same one.
C18_KeyTable ==
    key_name.letters \in KeyNames =>
        /\ sent.shell.kind \in {"none", "code"}
        /\ sent.client.kind \in {"none", "code"}
        /\ (sent.shell.kind = "code" /\ sent.client.kind = "code")
              => sent.shell.code = sent.client.code

(***************************************************************************)
(* Several run_task calls on one agent                                     *)
(***************************************************************************)
\* run_task has returned and the caller calls it again: the result is the
\* caller's, self.current_step stays as the task left it, and every name of
\* run_task holds its last value until the next call binds it
CallAgain ==
    /\ pc = "done"
    /\ calls < MaxTasks
    /\ pc' = "idle"
    /\ returned' = "none"
    /\ exit' = "none"
    /\ UNCHANGED <<config, current_step, conversation_history, screen_data,
                   response_text, action_response, step_calls, last_exec,
                   success, task_description, calls, pvars, cvars, hvars, kvars>>

TasksNext == LoopNext \/ CallAgain

TasksSpec == LoopInit /\ [][TasksNext]_vars

\* the steps of the running task that have been executed
ExecutedSteps ==
    IF pc \in {"loop", "done"} /\ exit \in {"none", "exhausted"} THEN current_step
    ELSE current_step - 1

\* while a task runs, the history is the two opening messages of that task
\* followed by one assistant entry for each step it has executed
OwnHistory ==
    pc \in {"loop", "perceive", "plan", "decide", "execute", "error", "done"} =>
        /\ current_step \in 0..config.max_steps
        /\ Len(conversation_history) = 2 + ExecutedSteps
        /\ SubSeq(conversation_history, 1, 2) = InitialHistory(task_description)
        /\ \A i \in 3..Len(conversation_history) :
              conversation_history[i].role = "assistant"

\* a call of run_task starts from nothing of the task before
FreshStart ==
    (pc = "idle" /\ pc' # "idle") =>
        /\ pc' = "loop"
        /\ current_step' = 0
        /\ returned' = "none"
        /\ conversation_history' = InitialHistory(task_description')

\* C19: every run_task call on an agent starts at step 0, not completed, with
\* a history of its own task only, and the planner of a later task is given
\* nothing an earlier task recorded.
C19_StatePerTask == []OwnHistory /\ [][FreshStart]_vars

C19_Witness ==
    /\ calls = 2
    /\ pc = "plan"
    /\ current_step = 1
    /\ task_description = "send mail"
    /\ Len(conversation_history) = 2

\* the bounds string of the node an element was made from
BoundsOf(element) == AttribGet(NodeAt(element.path).attrib, "bounds", DefaultBounds)

\* the floor of the midpoint, by its defining inequalities
IsFloorOfHalf(c, sum) == 2 * c <= sum /\ sum < 2 * (c + 1)

\* C21: the center of every emitted element is the floor midpoint of its
\* bounds; bounds [100,200][300,400] give (200,300); a node with malformed
\* bounds has center (0,0).
C21_CenterIsFloorMidpoint ==
    hpc = "parsed" =>
        \A i \in 1..Len(ui_elements) :
            LET e == ui_elements[i]
            IN /\ IsFloorOfHalf(e.center.x, e.bounds.x1 + e.bounds.x2)
               /\ IsFloorOfHalf(e.center.y, e.bounds.y1 + e.bounds.y2)
               /\ BoundsOf(e) = <<LBK, "100", COMMA, "200", RBK,
                                  LBK, "300", COMMA, "400", RBK>>
                     => e.center = [x |-> 200, y |-> 300]
               /\ ~WellFormedBounds(BoundsOf(e)) => e.center = [x |-> 0, y |-> 0]

\* C22: every emitted element has x1 <= x2 and y1 <= y2.
C22_RectWellFormed ==
    hpc = "parsed" =>
        \A i \in 1..Len(ui_elements) :
            /\ ui_elements[i].bounds.x1 <= ui_elements[i].bounds.x2
            /\ ui_elements[i].bounds.y1 <= ui_elements[i].bounds.y2

\* the entries the task's actions have left in the history, after the two
\* opening messages
ActionEntries == Len(conversation_history) - 2

\* _execute_action has returned on this step
ActionExecuted == success # "none"

\* the entries are as many as the actions executed: one for each finished
\* step, and on the running step one exactly when its action has been
\* executed
EntriesMatchActions ==
    pc \notin {"idle", "off"} =>
        /\ ActionEntries = IF pc \in {"perceive", "plan", "decide", "execute", "error"}
                              \/ (pc = "done" /\ exit # "exhausted")
                              THEN current_step - 1
                           ELSE current_step
        /\ ActionEntries <= current_step
        /\ ActionExecuted =>
              /\ ActionEntries = current_step
              /\ conversation_history[Len(conversation_history)]
                    = HistoryEntry(success = PyBool(TRUE))

\* a statement of run_task leaves the history alone or appends one entry to
\* it, and the one that executes the action appends
HistoryOnlyGrows ==
    pc # "idle" =>
        /\ Len(conversation_history') \in
              {Len(conversation_history), Len(conversation_history) + 1}
        /\ SubSeq(conversation_history', 1, Len(conversation_history))
              = conversation_history
        /\ (pc = "execute" /\ pc' = "loop") =>
              Len(conversation_history') = Len(conversation_history) + 1
        /\ current_step' \in {current_step, current_step + 1}
        /\ current_step' = current_step + 1 <=> (pc = "loop" /\ pc' = "perceive")

\* C23: after every executed action, succeeded or failed, one entry has been
\* appended and the step has been counted once; no entry is ever removed or
\* rewritten; the entries are as many as the executed actions and at most
\* step_count.
C23_HistoryBookkeeping == []EntriesMatchActions /\ [][HistoryOnlyGrows]_vars

C23_Witness ==
    /\ pc = "loop"
    /\ current_step = 3
    /\ ActionEntries = 3
    /\ success = PyBool(FALSE)
    /\ conversation_history[3] = HistoryEntry(TRUE)
    /\ conversation_history[4] = HistoryEntry(FALSE)

(***************************************************************************)
(* ActionExecutor.execute (action.py) on the actions of the response parser*)
(***************************************************************************)
\* action[name] for every name read: a missing one is a KeyError
Fields(action, names) == \A name \in names : name \in DOMAIN action

\* what execute does with an action, up to the call it dispatches to
Dispatch(action, op, names) ==
    IF Fields(action, names) THEN [kind |-> "call", op |-> op] ELSE Raises

\* execute reading the swipe as _execute_action of agent.py names its fields
ExecuteReadingStartEnd(action) ==
    LET action_type == IF "type" \in DOMAIN action THEN action.type ELSE "None"
    IN CASE action_type = "tap" -> Dispatch(action, "tap", {"x", "y"})
         [] action_type = "swipe" ->
               Dispatch(action, "swipe", {"start_x", "start_y", "end_x", "end_y"})
         [] action_type = "text_input" -> Dispatch(action, "input_text", {"text"})
         [] action_type = "key_event" -> Dispatch(action, "press_key", {"key"})
         [] action_type = "long_press" -> Dispatch(action, "long_press", {"x", "y"})
         [] action_type = "wait" -> [kind |-> "sleep"]
         [] action_type = "task_complete" -> [kind |-> "true"]
         [] OTHER -> [kind |-> "unknown"]

\* ActionExecutor.execute of action.py
Execute(action) ==
    LET action_type == IF "type" \in DOMAIN action THEN action.type ELSE "None"
    IN CASE action_type = "tap" -> Dispatch(action, "tap", {"x", "y"})
         [] action_type = "swipe" ->
               Dispatch(action, "swipe", {"x1", "y1", "x2", "y2"})
         [] action_type = "text_input" -> Dispatch(action, "input_text", {"text"})
         [] action_type = "key_event" -> Dispatch(action, "press_key", {"key"})
         [] action_type = "long_press" -> Dispatch(action, "long_press", {"x", "y"})
         [] action_type = "wait" -> [kind |-> "sleep"]
         [] action_type = "task_complete" -> [kind |-> "true"]
         [] OTHER -> [kind |-> "unknown"]

\* the types the claim names
DispatchedTypes == {"tap", "swipe", "text_input", "key_event", "wait", "task_complete"}

\* C24: every action the response parser returns has a type execute
\* dispatches and every field execute reads for it: execute reaches neither
\* its unknown-type branch nor a KeyError.
C24_ParserActionsDispatch ==
    ppc = "parsed" =>
        /\ parsed.type \in DispatchedTypes
        /\ Execute(parsed).kind \in {"call", "sleep", "true"}

C24_Witness ==
    /\ ppc = "parsed"
    /\ parsed.type = "swipe"
    /\ parsed.x1 = JInt(5000)
    /\ parsed.y1 = JInt(1000)
    /\ Execute(parsed) = [kind |-> "call", op |-> "swipe"]

====
